---------------------------- MODULE Spec2Model ----------------------------
(***************************************************************************)
(* The FloatingOrbs effect of docs/src/pages/index.tsx: the orb field, the *)
(* per-frame update and paint, the resize handler and the effect cleanup.  *)
(*                                                                         *)
(* Numbers are fixed point.  Lengths (x, y, radius, velocity) are counted  *)
(* in 1/Res of a CSS pixel, angles (phase, pulseSpeed) in milliradians and *)
(* a value of Math.random() in thousandths.  offsetWidth, offsetHeight and *)
(* the canvas' width and height are whole pixels.                          *)
(***************************************************************************)
EXTENDS Integers, Sequences, FiniteSets

VARIABLES
    surface,           \* "ok", "noctx" (getContext gives null) or "none" (canvasRef.current is null)
    offsetWidth,       \* canvas.offsetWidth: the layout width the host gives the canvas
    offsetHeight,      \* canvas.offsetHeight
    devicePixelRatio,  \* window.devicePixelRatio; 0 stands for a falsy value
    canvasWidth,       \* canvas.width: the bitmap's width
    canvasHeight,      \* canvas.height
    ctxScale,          \* the scale of ctx's current transform
    listener,          \* setCanvasSize is registered for the window's "resize"
    orbs,              \* the closure's orbs array
    painted,           \* the discs on the bitmap, in painting order
    rafPending,        \* frame callbacks requested and not yet run
    status,            \* "Idle", "Running", "Disposed", or "Inert": the effect returned early
    ticks,             \* history: runs of animate()
    orbs0,             \* history: the orbs as createOrb made them
    resizes,           \* history: resize events so far
    disposeCalls,      \* history: calls of the cleanup
    sizeAge,           \* history: runs of animate() since the last resize event
    runX               \* history: per orb, the latest consecutive ticks that wrapped x,
                       \*          each started inside the bounds of unchanged dimensions

vars == <<surface, offsetWidth, offsetHeight, devicePixelRatio, canvasWidth,
          canvasHeight, ctxScale, listener, orbs, painted, rafPending, status,
          ticks, orbs0, resizes, disposeCalls, sizeAge, runX>>

---------------------------------------------------------------------------
(* Bounds of the model *)

Res == 10
NumOrbs == 2
MaxTicks == 5
MaxResizes == 2
MaxDisposeCalls == 2

(* Constants of the program *)

PulseAmp == 30
TwoPi == 6283
PulseBase == 6
PulseSpan == 6

Color(r, g, b, a) == [r |-> r, g |-> g, b |-> b, alpha |-> a]

\* The six (color, baseRadius) pairs of the orbs array; alpha in thousandths.
Palette ==
    << [color |-> Color(139, 92, 246, 180), baseRadius |-> 280],
       [color |-> Color(192, 132, 252, 140), baseRadius |-> 220],
       [color |-> Color(236, 72, 153, 120), baseRadius |-> 200],
       [color |-> Color(212, 175, 55, 80), baseRadius |-> 180],
       [color |-> Color(99, 102, 241, 120), baseRadius |-> 240],
       [color |-> Color(244, 114, 182, 100), baseRadius |-> 160] >>

\* The layout sizes the host gives the canvas (0 by 0: not laid out), and the pixel
\* ratios of its displays.
Sizes == { <<1280, 800>>, <<400, 300>>, <<0, 0>> }
DprVals == {0, 2}

\* Sequences of values of Math.random(), in thousandths, read cyclically.
RandomStreams ==
    { << 999, 500, 750, 500, 500, 999,    0, 999,   0, 999,   0,   0 >>,
      << 500, 999, 500, 250, 250, 500,  999,   0,   0, 500, 750, 999 >>,
      <<   0,   0, 250,   0, 400, 999,  250, 750, 999, 999, 600,   0 >> }

Draw(stream, k) == stream[((k - 1) % Len(stream)) + 1]

---------------------------------------------------------------------------
(* Math.sin, times amp: Bhaskara's rational approximation on a half turn *)

HalfTurn == TwoPi \div 2

Bhaskara(amp, k) ==
    LET q == (k * (HalfTurn - k)) \div 64
        d == (5 * HalfTurn * HalfTurn) \div 64
    IN  (16 * q * amp) \div (d - 4 * q)

SinTimes(amp, phase) ==
    LET k == phase % TwoPi
    IN  IF k <= HalfTurn THEN Bhaskara(amp, k) ELSE 0 - Bhaskara(amp, k - HalfTurn)

---------------------------------------------------------------------------
(* The closure's functions *)

setCanvasSize(ow, oh, ratio) ==
    LET dpr == IF ratio = 0 THEN 1 ELSE ratio
    IN  [width |-> ow * dpr, height |-> oh * dpr, scale |-> 1 * dpr]

createOrb(color, baseRadius, stream, k, ow, oh) ==
    [ x          |-> (Draw(stream, k) * ow * Res) \div 1000,
      y          |-> (Draw(stream, k + 1) * oh * Res) \div 1000,
      baseRadius |-> baseRadius * Res,
      radius     |-> baseRadius * Res,
      color      |-> color,
      vx         |-> ((Draw(stream, k + 2) - 500) * 4 * Res) \div 10000,
      vy         |-> ((Draw(stream, k + 3) - 500) * 4 * Res) \div 10000,
      phase      |-> (Draw(stream, k + 4) * TwoPi) \div 1000,
      pulseSpeed |-> PulseBase + (Draw(stream, k + 5) * PulseSpan) \div 1000 ]

createOrbs(stream, ow, oh) ==
    [i \in 1..NumOrbs |->
        createOrb(Palette[i].color, Palette[i].baseRadius, stream, 6 * (i - 1) + 1, ow, oh)]

\* updateOrb adding the pulse to the current radius, not to baseRadius.
updateOrb_radiusDrifts(orb, ow, oh) ==
    LET x1     == orb.x + orb.vx
        y1     == orb.y + orb.vy
        phase  == orb.phase + orb.pulseSpeed
        radius == orb.radius + SinTimes(PulseAmp * Res, phase)
        width  == ow * Res
        height == oh * Res
        x2     == IF x1 < 0 - radius THEN width + radius ELSE x1
        x3     == IF x2 > width + radius THEN 0 - radius ELSE x2
        y2     == IF y1 < 0 - radius THEN height + radius ELSE y1
        y3     == IF y2 > height + radius THEN 0 - radius ELSE y2
    IN  [orb EXCEPT !.x = x3, !.y = y3, !.phase = phase, !.radius = radius]

\* updateOrb wrapping against the radius of the previous tick.
updateOrb_wrapsOnOldRadius(orb, ow, oh) ==
    LET x1     == orb.x + orb.vx
        y1     == orb.y + orb.vy
        phase  == orb.phase + orb.pulseSpeed
        radius == orb.baseRadius + SinTimes(PulseAmp * Res, phase)
        width  == ow * Res
        height == oh * Res
        x2     == IF x1 < 0 - orb.radius THEN width + orb.radius ELSE x1
        x3     == IF x2 > width + orb.radius THEN 0 - orb.radius ELSE x2
        y2     == IF y1 < 0 - orb.radius THEN height + orb.radius ELSE y1
        y3     == IF y2 > height + orb.radius THEN 0 - orb.radius ELSE y2
    IN  [orb EXCEPT !.x = x3, !.y = y3, !.phase = phase, !.radius = radius]

\* updateOrb taking the radius from the phase before it is advanced.
updateOrb_radiusOfOldPhase(orb, ow, oh) ==
    LET x1     == orb.x + orb.vx
        y1     == orb.y + orb.vy
        phase  == orb.phase + orb.pulseSpeed
        radius == orb.baseRadius + SinTimes(PulseAmp * Res, orb.phase)
        width  == ow * Res
        height == oh * Res
        x2     == IF x1 < 0 - radius THEN width + radius ELSE x1
        x3     == IF x2 > width + radius THEN 0 - radius ELSE x2
        y2     == IF y1 < 0 - radius THEN height + radius ELSE y1
        y3     == IF y2 > height + radius THEN 0 - radius ELSE y2
    IN  [orb EXCEPT !.x = x3, !.y = y3, !.phase = phase, !.radius = radius]

updateOrb(orb, ow, oh) ==
    LET x1     == orb.x + orb.vx
        y1     == orb.y + orb.vy
        phase  == orb.phase + orb.pulseSpeed
        radius == orb.baseRadius + SinTimes(PulseAmp * Res, phase)
        width  == ow * Res
        height == oh * Res
        x2     == IF x1 < 0 - radius THEN width + radius ELSE x1
        x3     == IF x2 > width + radius THEN 0 - radius ELSE x2
        y2     == IF y1 < 0 - radius THEN height + radius ELSE y1
        y3     == IF y2 > height + radius THEN 0 - radius ELSE y2
    IN  [orb EXCEPT !.x = x3, !.y = y3, !.phase = phase, !.radius = radius]

drawOrb(orb) ==
    [ x |-> orb.x, y |-> orb.y, radius |-> orb.radius,
      stops |-> << orb.color, [orb.color EXCEPT !.alpha = 50], "transparent" >> ]

\* forEach drawing each orb before it is updated.
forEachOrb_drawsFirst(os, ow, oh) ==
    [orbs |-> [i \in 1..Len(os) |-> updateOrb(os[i], ow, oh)],
     draws |-> [i \in 1..Len(os) |-> drawOrb(os[i])]]

\* orbs.forEach: each orb is updated, then drawn.
forEachOrb(os, ow, oh) ==
    LET updated == [i \in 1..Len(os) |-> updateOrb(os[i], ow, oh)]
    IN  [orbs |-> updated, draws |-> [i \in 1..Len(os) |-> drawOrb(updated[i])]]

\* clearRect(0, 0, offsetWidth, offsetHeight) under ctx's scale: what stays of the bitmap.
clearRect(old, ow, oh, scale, cw, ch) ==
    IF ow * scale >= cw /\ oh * scale >= ch THEN << >> ELSE old

\* How a tick wrapped x: the new x is not the moved one.
WrappedX(old, new) == new.x # old.x + old.vx

\* animate(): its effect on the orbs, the bitmap, the frame queue and the history.
animate(os, bitmap, ow, oh, scale, cw, ch, pending) ==
    LET f == forEachOrb(os, ow, oh)
    IN  /\ orbs' = f.orbs
        /\ painted' = clearRect(bitmap, ow, oh, scale, cw, ch) \o f.draws
        /\ rafPending' = pending + 1
        /\ ticks' = ticks + 1
        /\ sizeAge' = sizeAge + 1
        /\ runX' = [i \in 1..Len(os) |->
                      IF WrappedX(os[i], f.orbs[i]) /\ sizeAge >= 1
                      THEN (IF i \in DOMAIN runX THEN runX[i] ELSE 0) + 1
                      ELSE 0]

---------------------------------------------------------------------------
(* The state after construction: the component is rendered, the effect has *)
(* not run.  A canvas element starts 300 by 150.                           *)

Init ==
    /\ surface \in {"ok", "noctx", "none"}
    /\ \E size \in Sizes : offsetWidth = size[1] /\ offsetHeight = size[2]
    /\ devicePixelRatio \in DprVals
    /\ canvasWidth = 300
    /\ canvasHeight = 150
    /\ ctxScale = 1
    /\ listener = FALSE
    /\ orbs = << >>
    /\ painted = << >>
    /\ rafPending = 0
    /\ status = "Idle"
    /\ ticks = 0
    /\ orbs0 = << >>
    /\ resizes = 0
    /\ disposeCalls = 0
    /\ sizeAge = 0
    /\ runX = << >>

\* The effect's body without its two early returns.
Mount_unchecked(stream) ==
    /\ status = "Idle"
    /\ LET c == setCanvasSize(offsetWidth, offsetHeight, devicePixelRatio)
           made == createOrbs(stream, offsetWidth, offsetHeight)
       IN  /\ canvasWidth' = c.width
           /\ canvasHeight' = c.height
           /\ ctxScale' = c.scale
           /\ listener' = TRUE
           /\ orbs0' = made
           /\ animate(made, << >>, offsetWidth, offsetHeight, c.scale,
                      c.width, c.height, 0)
           /\ status' = IF surface = "ok" THEN "Running" ELSE "Inert"
    /\ UNCHANGED <<surface, offsetWidth, offsetHeight, devicePixelRatio,
                   resizes, disposeCalls>>

\* The effect's body.
Mount(stream) ==
    /\ status = "Idle"
    /\ IF surface # "ok"
       THEN /\ status' = "Inert"
            /\ UNCHANGED <<canvasWidth, canvasHeight, ctxScale, listener, orbs,
                           painted, rafPending, ticks, orbs0, sizeAge, runX>>
       ELSE LET c == setCanvasSize(offsetWidth, offsetHeight, devicePixelRatio)
                made == createOrbs(stream, offsetWidth, offsetHeight)
            IN  /\ canvasWidth' = c.width
                /\ canvasHeight' = c.height
                /\ ctxScale' = c.scale
                /\ listener' = TRUE
                /\ orbs0' = made
                /\ animate(made, << >>, offsetWidth, offsetHeight, c.scale,
                           c.width, c.height, 0)
                /\ status' = "Running"
    /\ UNCHANGED <<surface, offsetWidth, offsetHeight, devicePixelRatio,
                   resizes, disposeCalls>>

\* The host runs a requested frame callback.
Frame ==
    /\ rafPending > 0
    /\ ticks < MaxTicks
    /\ animate(orbs, painted, offsetWidth, offsetHeight, ctxScale,
               canvasWidth, canvasHeight, rafPending - 1)
    /\ UNCHANGED <<surface, offsetWidth, offsetHeight, devicePixelRatio,
                   canvasWidth, canvasHeight, ctxScale, listener, status,
                   orbs0, resizes, disposeCalls>>

\* A resize handler that also pulls every orb back inside the new dimensions.
WindowResize_movesOrbs(size, ratio) ==
    /\ resizes < MaxResizes
    /\ offsetWidth' = size[1]
    /\ offsetHeight' = size[2]
    /\ devicePixelRatio' = ratio
    /\ IF listener
       THEN LET c == setCanvasSize(size[1], size[2], ratio)
            IN  /\ canvasWidth' = c.width
                /\ canvasHeight' = c.height
                /\ ctxScale' = c.scale
                /\ painted' = << >>
                /\ orbs' = [i \in 1..Len(orbs) |->
                              [orbs[i] EXCEPT
                                 !.x = IF @ > size[1] * Res THEN size[1] * Res ELSE @,
                                 !.y = IF @ > size[2] * Res THEN size[2] * Res ELSE @]]
       ELSE UNCHANGED <<canvasWidth, canvasHeight, ctxScale, painted, orbs>>
    /\ resizes' = resizes + 1
    /\ sizeAge' = 0
    /\ runX' = [i \in DOMAIN runX |-> 0]
    /\ UNCHANGED <<surface, listener, rafPending, status, ticks, orbs0,
                   disposeCalls>>

\* The window is resized: the layout changes and the "resize" event is dispatched.
WindowResize(size, ratio) ==
    /\ resizes < MaxResizes
    /\ offsetWidth' = size[1]
    /\ offsetHeight' = size[2]
    /\ devicePixelRatio' = ratio
    /\ IF listener
       THEN LET c == setCanvasSize(size[1], size[2], ratio)
            IN  /\ canvasWidth' = c.width
                /\ canvasHeight' = c.height
                /\ ctxScale' = c.scale
                /\ painted' = << >>
       ELSE UNCHANGED <<canvasWidth, canvasHeight, ctxScale, painted>>
    /\ resizes' = resizes + 1
    /\ sizeAge' = 0
    /\ runX' = [i \in DOMAIN runX |-> 0]
    /\ UNCHANGED <<surface, listener, orbs, rafPending, status, ticks, orbs0,
                   disposeCalls>>

\* A cleanup whose removeEventListener names another function than the one registered.
Dispose_removesOther ==
    /\ status \in {"Running", "Disposed", "Inert"}
    /\ disposeCalls < MaxDisposeCalls
    /\ disposeCalls' = disposeCalls + 1
    /\ IF status = "Inert"
       THEN UNCHANGED <<listener, status>>
       ELSE /\ listener' = listener
            /\ status' = "Disposed"
    /\ UNCHANGED <<surface, offsetWidth, offsetHeight, devicePixelRatio,
                   canvasWidth, canvasHeight, ctxScale, orbs, painted,
                   rafPending, ticks, orbs0, resizes, sizeAge, runX>>

\* The cleanup the effect returned; after an early return there is none to run.
Dispose ==
    /\ status \in {"Running", "Disposed", "Inert"}
    /\ disposeCalls < MaxDisposeCalls
    /\ disposeCalls' = disposeCalls + 1
    /\ IF status = "Inert"
       THEN UNCHANGED <<listener, status>>
       ELSE /\ listener' = FALSE
            /\ status' = "Disposed"
    /\ UNCHANGED <<surface, offsetWidth, offsetHeight, devicePixelRatio,
                   canvasWidth, canvasHeight, ctxScale, orbs, painted,
                   rafPending, ticks, orbs0, resizes, sizeAge, runX>>

Next ==
    \/ \E stream \in RandomStreams : Mount(stream)
    \/ Frame
    \/ \E size \in Sizes, ratio \in DprVals : WindowResize(size, ratio)
    \/ Dispose

Spec == Init /\ [][Next]_vars

---------------------------------------------------------------------------
(* Claims *)

Started == status \in {"Running", "Disposed"}

Orbs == 1..Len(orbs)

\* C1: once the cleanup has run, no frame callback executes: no step taken
\* from a disposed state runs animate(), ticks an orb or paints.
C1_NoFrameAfterDispose ==
    [][status = "Disposed" => (ticks' = ticks /\ orbs' = orbs /\ painted' = painted)]_vars

\* C2: after any call of the cleanup no frame callback is pending and no
\* resize listener is registered, and a further call changes nothing.
C2_DisposeIdempotentQuiet ==
    /\ [](disposeCalls >= 1 => (rafPending = 0 /\ ~listener))
    /\ [][(disposeCalls' > disposeCalls /\ disposeCalls >= 1) =>
            UNCHANGED <<surface, offsetWidth, offsetHeight, devicePixelRatio,
                        canvasWidth, canvasHeight, ctxScale, listener, orbs,
                        painted, rafPending, status>>]_vars

\* C3: every orb's radius lies within baseRadius - 30 and baseRadius + 30,
\* after any number of ticks and resize events.
C3_RadiusInRange ==
    \A i \in Orbs :
        /\ orbs[i].radius >= orbs[i].baseRadius - PulseAmp * Res
        /\ orbs[i].radius <= orbs[i].baseRadius + PulseAmp * Res

\* After ticks and a resize one orb is swollen and another shrunk.
C3_Witness ==
    /\ ticks >= 3
    /\ resizes >= 1
    /\ \E i \in Orbs : orbs[i].radius > orbs[i].baseRadius + (PulseAmp * Res) \div 2
    /\ \E i \in Orbs : orbs[i].radius < orbs[i].baseRadius

\* The position bound of one orb against the dimensions ow, oh.
InBounds(orb, ow, oh) ==
    /\ 0 - orb.radius <= orb.x
    /\ orb.x <= ow * Res + orb.radius
    /\ 0 - orb.radius <= orb.y
    /\ orb.y <= oh * Res + orb.radius

\* C4 as claimed: at all times, also between a resize event and the next
\* tick, every orb lies within the current dimensions widened by its radius.
C4_AlwaysInBounds ==
    \A i \in Orbs : InBounds(orbs[i], offsetWidth, offsetHeight)

\* C4 amended: every orb lies within the current dimensions widened by its
\* radius in every state that no resize event has changed since the last tick.
C4_InBoundsAfterTick ==
    sizeAge >= 1 => \A i \in Orbs : InBounds(orbs[i], offsetWidth, offsetHeight)

\* After a resize and ticks, orbs sit on the right and the bottom bound.
C4_Witness ==
    /\ sizeAge >= 1
    /\ resizes >= 1
    /\ \E i \in Orbs : orbs[i].x = offsetWidth * Res + orbs[i].radius
    /\ \E i \in Orbs : orbs[i].y = offsetHeight * Res + orbs[i].radius

\* C5: a resize event leaves every orb and the number of orbs as they
\* were, runs no tick, and neither requests nor cancels a frame callback.
C5_ResizeLeavesOrbs ==
    [][resizes' # resizes =>
         (orbs' = orbs /\ Len(orbs') = Len(orbs) /\ rafPending' = rafPending /\ ticks' = ticks)]_vars

\* A resize event has just left an orb outside the new dimensions.
C5_Witness ==
    /\ Started
    /\ resizes >= 1
    /\ sizeAge = 0
    /\ rafPending = 1
    /\ \E i \in Orbs : ~InBounds(orbs[i], offsetWidth, offsetHeight)

\* window.devicePixelRatio || 1
PixelRatio == IF devicePixelRatio = 0 THEN 1 ELSE devicePixelRatio

\* C6: the resize listener is registered exactly from mount to dispose:
\* until dispose a resize event sets the bitmap to the new layout size times
\* the pixel ratio, after dispose a resize event leaves the bitmap's size.
C6_ListenerWhileMounted ==
    /\ [](listener <=> status = "Running")
    /\ [][resizes' # resizes =>
            IF status = "Running"
            THEN /\ canvasWidth' = offsetWidth' * PixelRatio'
                 /\ canvasHeight' = offsetHeight' * PixelRatio'
                 /\ ctxScale' = PixelRatio'
            ELSE UNCHANGED <<canvasWidth, canvasHeight, ctxScale>>]_vars

\* A resize event was handled before dispose and another ignored after it.
C6_Witness ==
    /\ status = "Disposed"
    /\ resizes = 2
    /\ painted = << >>
    /\ canvasWidth # offsetWidth * PixelRatio

\* C7: without a canvas or without its 2D context the effect does nothing:
\* no listener, no orb, nothing painted, no frame callback requested, the
\* canvas as it was.
C7_AbsentSurfaceNoWork ==
    surface # "ok" =>
        /\ status \in {"Idle", "Inert"}
        /\ ~listener
        /\ orbs = << >>
        /\ painted = << >>
        /\ rafPending = 0
        /\ ticks = 0
        /\ canvasWidth = 300 /\ canvasHeight = 150 /\ ctxScale = 1

\* The effect returned early, and resize events and the unmount came after.
C7_Witness ==
    /\ surface = "noctx"
    /\ status = "Inert"
    /\ resizes >= 1
    /\ disposeCalls >= 1

\* The orbs a run of animate() started from: at mount, the orbs just created.
Before == IF ticks = 0 THEN orbs0' ELSE orbs

\* C8: every run of animate() advances every orb by one tick, paints the
\* orbs as ticked, and leaves exactly one frame callback requested; never
\* more than one is pending, and one is pending as long as the loop runs.
C8_FrameLoop ==
    /\ [](rafPending <= 1 /\ (status = "Running" => rafPending = 1))
    /\ [][ticks' # ticks =>
            /\ ticks' = ticks + 1
            /\ Len(orbs') = Len(Before)
            /\ \A i \in 1..Len(orbs') :
                  orbs'[i].phase = Before[i].phase + Before[i].pulseSpeed
            /\ Len(painted') >= Len(orbs')
            /\ \A i \in 1..Len(orbs') :
                  LET disc == painted'[Len(painted') - Len(orbs') + i]
                  IN  /\ disc.x = orbs'[i].x
                      /\ disc.y = orbs'[i].y
                      /\ disc.radius = orbs'[i].radius
                      /\ disc.stops[1] = orbs'[i].color
            /\ rafPending' = 1]_vars

\* The loop has run several frames and the bitmap shows the pulsed orbs.
C8_Witness ==
    /\ status = "Running"
    /\ ticks >= 3
    /\ rafPending = 1
    /\ Len(painted) = Len(orbs)
    /\ \E i \in Orbs : painted[i].radius # orbs0[i].radius

\* The wraparound rule of the reference step, per coordinate.
RefCoord(moved, limit, radius) ==
    CASE moved < 0 - radius -> limit + radius
      [] moved > limit + radius -> 0 - radius
      [] OTHER -> moved

\* The reference step of one orb.
RefStep(orb, ow, oh) ==
    LET phase == orb.phase + orb.pulseSpeed
        radius == orb.baseRadius + SinTimes(PulseAmp * Res, phase)
    IN  [ x |-> RefCoord(orb.x + orb.vx, ow * Res, radius),
          y |-> RefCoord(orb.y + orb.vy, oh * Res, radius),
          baseRadius |-> orb.baseRadius,
          radius |-> radius,
          color |-> orb.color,
          vx |-> orb.vx,
          vy |-> orb.vy,
          phase |-> phase,
          pulseSpeed |-> orb.pulseSpeed ]

\* C9: a tick of an orb is the reference step; after n ticks the phase is
\* the initial phase plus n times pulseSpeed, and velocity, baseRadius,
\* pulseSpeed and color are as created.
C9_TickIsReferenceStep ==
    /\ [](\A i \in Orbs :
            /\ orbs[i].phase = orbs0[i].phase + ticks * orbs0[i].pulseSpeed
            /\ orbs[i].vx = orbs0[i].vx /\ orbs[i].vy = orbs0[i].vy
            /\ orbs[i].baseRadius = orbs0[i].baseRadius
            /\ orbs[i].pulseSpeed = orbs0[i].pulseSpeed
            /\ orbs[i].color = orbs0[i].color)
    /\ [][ticks' # ticks =>
            /\ Len(orbs') = Len(Before)
            /\ \A i \in 1..Len(orbs') :
                  orbs'[i] = RefStep(Before[i], offsetWidth, offsetHeight)]_vars

\* One orb has been wrapped to the left edge, another has moved unwrapped.
C9_Witness ==
    /\ ticks >= 4
    /\ \E i \in Orbs : orbs[i].x = 0 - orbs[i].radius /\ orbs[i].vx > 0
    /\ \E i \in Orbs : /\ orbs[i].y > 0 - orbs[i].radius
                       /\ orbs[i].y < 0
                       /\ orbs[i].x = orbs0[i].x + ticks * orbs[i].vx

\* C10: under unchanged dimensions an orb with a non-zero x velocity that a
\* tick wrapped to the opposite edge is not wrapped again by the next tick.
C10_NoWrapStraightBack ==
    \A i \in Orbs : orbs[i].vx # 0 => runX[i] <= 1

=============================================================================
